---- MODULE Spec2Model ----
(***************************************************************************)
(* A model of package q (src/q.go): the logger's session state (start,     *)
(* timer, lastFile, lastFunc), the buffer and its flush to the log file,   *)
(* the line composer output(), and Q called from several goroutines.       *)
(*                                                                         *)
(* Time is counted in microseconds.  Text is a sequence of tokens: a       *)
(* timestamp, a space, a newline, an indent of n spaces, a header, or one  *)
(* newline-free piece of a blob; a token's width is its number of display  *)
(* columns (colour escape codes have width 0 and are not tokens).          *)
(***************************************************************************)
EXTENDS Integers, Sequences, FiniteSets, TLC

\* ------------------------------------------------------------- constants

\* q.go:33
maxLineWidth == 80

\* q.go:68, 2 * time.Second, in microseconds
TimerDuration == 2000000

\* q.go:109, "%.3fs" prints thousandths of a second: microseconds per unit
MicrosPerMilli == 1000

\* q.go:109, len("9223372036.855s"): time.Since of the zero time.Time
\* saturates at the largest Duration
SaturatedLen == 15

\* --------------------------------------------------------------- bounds

\* goroutines calling Q
NumProcs == 2

\* Q calls made in one behaviour
MaxCalls == 2

\* clock advances in one behaviour
MaxTicks == 2

\* blobs handed to output() in the composer's specification
MaxArgs == 3

\* failures in one behaviour: of getCallerInfo, of argNames, of the file
MaxErrors == 1

\* ------------------------------------------------------------ timestamps

\* The zero time.Time, the value of start before resetTimer first sets it.
ZeroTime == -1

RECURSIVE Digits(_)
\* number of decimal digits of n >= 0
Digits(n) == IF n < 10 THEN 1 ELSE 1 + Digits(n \div 10)

\* time.Since(l.start).Seconds() printed with "%.3fs": the elapsed time
\* rounded to the nearest thousandth of a second, a half upwards (sat: the
\* saturated Duration, when start is still the zero time).
Timestamp(startT, nowT) ==
    IF startT = ZeroTime
    THEN [ms |-> 0, sat |-> TRUE]
    ELSE [ms |-> ((nowT - startT) + (MicrosPerMilli \div 2)) \div MicrosPerMilli,
          sat |-> FALSE]

\* len(timestamp): integer digits, the point, three decimals and "s"
TimestampLen(ts) ==
    IF ts.sat THEN SaturatedLen ELSE Digits(ts.ms \div 1000) + 5

\* ---------------------------------------------------------------- tokens

Tok(k, a, b, w) == [k |-> k, a |-> a, b |-> b, w |-> w]

TsTok(ts)     == Tok("ts", ts.ms, IF ts.sat THEN 1 ELSE 0, TimestampLen(ts))
SpTok         == Tok("sp", 0, 0, 1)
NlTok         == Tok("nl", 0, 0, 0)
IndTok(n)     == Tok("ind", 0, 0, n)
\* piece j of blob i: name (or "") and value of the blob, w columns
TxtTok(i, j, arg, w) == Tok("txt", <<i, j>>, <<arg.name, arg.val>>, w)
HdrTok(caller) == Tok("hdr", caller, 0, 0)

\* ----------------------------------------------------------------- blobs

\* A rendered argument: its recovered name ("" when there is none), its
\* value, and the widths of its visual lines (more than one when the
\* rendering holds newlines).
Blob(name, val, lines) == [name |-> name, val |-> val, lines |-> lines]

Max(a, b) == IF a >= b THEN a ELSE b

RECURSIVE MaxOf(_)
MaxOf(s) == IF Len(s) = 0 THEN 0 ELSE Max(Head(s), MaxOf(Tail(s)))

\* the displayed width of a blob: its longest visual line
argWidth(arg) == MaxOf(arg.lines)

\* a value rendered without a name
formatArg(v) == Blob("", v.val, v.lines)

formatArgs(vs) == [i \in 1..Len(vs) |-> formatArg(vs[i])]

\* name=value: the first visual line grows by the name and "="
prependArgName(names, args) ==
    [i \in 1..Len(args) |->
        LET name == IF i <= Len(names) THEN names[i] ELSE ""
        IN IF name = ""
           THEN args[i]
           ELSE Blob(name, args[i].val,
                     [j \in 1..Len(args[i].lines) |->
                        IF j = 1 THEN args[i].lines[j] + Len(name) + 1
                                 ELSE args[i].lines[j]])]

\* --------------------------------------------------------------- output

RECURSIVE IndentFromBare(_, _, _, _)
IndentFromBare(arg, i, j, indentW) ==
    IF j > Len(arg.lines) THEN <<>>
    ELSE (IF j = 1 THEN <<>> ELSE <<NlTok>>)
         \o <<TxtTok(i, j, arg, arg.lines[j])>>
         \o IndentFromBare(arg, i, j + 1, indentW)

RECURSIVE IndentFrom(_, _, _, _)
\* strings.Replace(arg, "\n", "\n"+indent, -1): the pieces of blob i from
\* piece j on, each newline followed by the indent
IndentFrom(arg, i, j, indentW) ==
    IF j > Len(arg.lines) THEN <<>>
    ELSE (IF j = 1 THEN <<>> ELSE <<NlTok, IndTok(indentW)>>)
         \o <<TxtTok(i, j, arg, arg.lines[j])>>
         \o IndentFrom(arg, i, j + 1, indentW)

\* the state of output()'s loop after the timestamp is written
OutputStart(ts) ==
    [buf       |-> <<TsTok(ts), SpTok>>,
     padding   |-> 0,
     lineArgs  |-> 0,
     lineWidth |-> TimestampLen(ts) + 1]

BreakLineOnEqual(lineWidth, lineArgs) == lineWidth >= maxLineWidth /\ lineArgs # 0

\* q.go:131: the break condition of output()'s loop
BreakLine(lineWidth, lineArgs) == lineWidth > maxLineWidth /\ lineArgs # 0

AfterBreakWidthBug(timestampWidth, w) == w

\* q.go:134: the running width once a blob has been moved to a new line
AfterBreakWidth(timestampWidth, w) == timestampWidth + w

OutputArgDrop(st, arg, i, timestampWidth) ==
    LET w         == argWidth(arg)
        lineWidth == st.lineWidth + w + st.padding
        text      == IndentFrom(arg, i, 1, timestampWidth)
    IN IF BreakLine(lineWidth, st.lineArgs)
       THEN [buf       |-> st.buf \o <<NlTok, IndTok(timestampWidth)>>,
             padding   |-> 0,
             lineArgs  |-> 0,
             lineWidth |-> timestampWidth]
       ELSE [buf       |-> st.buf
                           \o (IF st.padding = 1 THEN <<SpTok>> ELSE <<>>)
                           \o text,
             padding   |-> 1,
             lineArgs  |-> st.lineArgs + 1,
             lineWidth |-> lineWidth]

\* one iteration of output()'s loop, for blob i
OutputArg(st, arg, i, timestampWidth) ==
    LET w         == argWidth(arg)
        lineWidth == st.lineWidth + w + st.padding
        text      == IndentFrom(arg, i, 1, timestampWidth)
    IN IF BreakLine(lineWidth, st.lineArgs)
       THEN [buf       |-> st.buf \o <<NlTok, IndTok(timestampWidth)>> \o text,
             padding   |-> 1,
             lineArgs  |-> 1,
             lineWidth |-> AfterBreakWidth(timestampWidth, w)]
       ELSE [buf       |-> st.buf
                           \o (IF st.padding = 1 THEN <<SpTok>> ELSE <<>>)
                           \o text,
             padding   |-> 1,
             lineArgs  |-> st.lineArgs + 1,
             lineWidth |-> lineWidth]

RECURSIVE OutputLoop(_, _, _, _)
OutputLoop(st, args, i, timestampWidth) ==
    IF i > Len(args) THEN st
    ELSE OutputLoop(OutputArg(st, args[i], i, timestampWidth),
                    args, i + 1, timestampWidth)

outputNoNewline(args, ts) ==
    OutputLoop(OutputStart(ts), args, 1, TimestampLen(ts) + 1).buf

\* what output(args...) appends to the buffer when the timestamp is ts
output(args, ts) ==
    OutputLoop(OutputStart(ts), args, 1, TimestampLen(ts) + 1).buf \o <<NlTok>>

\* --------------------------------------------------- reading a token text

RECURSIVE PhysLines(_)
\* the physical lines of a text: the token runs between newlines
PhysLines(toks) ==
    IF \A n \in 1..Len(toks) : toks[n].k # "nl" THEN <<toks>>
    ELSE LET n == CHOOSE m \in 1..Len(toks) :
                     toks[m].k = "nl" /\ \A q \in 1..(m - 1) : toks[q].k # "nl"
         IN <<SubSeq(toks, 1, n - 1)>> \o PhysLines(SubSeq(toks, n + 1, Len(toks)))

RECURSIVE LineWidth(_)
LineWidth(line) == IF Len(line) = 0 THEN 0 ELSE Head(line).w + LineWidth(Tail(line))

\* the blobs (by index) with a piece on the line
BlobsOn(line) == {line[n].a[1] : n \in {m \in 1..Len(line) : line[m].k = "txt"}}

\* ---------------------------------------------------------------- logger

\* q.go:51-61: the timer is created and stopped, the buffer is empty, start
\* is the zero time and lastFile and lastFunc are empty
InitLogger ==
    [buf      |-> <<>>,
     start    |-> ZeroTime,
     timer    |-> [active |-> FALSE, when |-> 0],
     lastFile |-> "",
     lastFunc |-> ""]

\* getCallerInfo failed
NoCaller == [func |-> "", file |-> "", line |-> 0]

\* A time.Timer is active from Reset until its deadline: Reset reports it
\* expired from the deadline on (the runtime's delay in firing a timer is
\* left out).
TimerActive(t, nowT) == t.active /\ nowT < t.when

resetTimerAlways(l, d, nowT) ==
    [expired |-> ~TimerActive(l.timer, nowT),
     l       |-> [l EXCEPT !.timer = [active |-> TRUE, when |-> nowT + d],
                           !.start = nowT]]

resetTimerInverted(l, d, nowT) ==
    LET expired == ~TimerActive(l.timer, nowT)
    IN [expired |-> expired,
        l       |-> [l EXCEPT !.timer = [active |-> TRUE, when |-> nowT + d],
                              !.start = IF expired THEN @ ELSE nowT]]

resetTimerNever(l, d, nowT) ==
    [expired |-> ~TimerActive(l.timer, nowT),
     l       |-> [l EXCEPT !.timer = [active |-> TRUE, when |-> nowT + d]]]

\* q.go:84-90: expired = !l.timer.Reset(d); start is set only when expired
resetTimer(l, d, nowT) ==
    LET expired == ~TimerActive(l.timer, nowT)
    IN [expired |-> expired,
        l       |-> [l EXCEPT !.timer = [active |-> TRUE, when |-> nowT + d],
                              !.start = IF expired THEN nowT ELSE @]]

NoHeaderBug(timerExpired, caller, l) ==
    ~timerExpired /\ caller.func = l.lastFunc

\* q.go:70: the condition under which header() returns ""
NoHeader(timerExpired, caller, l) ==
    ~timerExpired /\ caller.func = l.lastFunc /\ caller.file = l.lastFile

headerKeepsFile(l, caller, nowT) ==
    LET r == resetTimer(l, TimerDuration, nowT)
    IN IF NoHeader(r.expired, caller, r.l)
       THEN [text |-> <<>>, expired |-> r.expired, l |-> r.l]
       ELSE [text    |-> <<HdrTok(caller)>>,
             expired |-> r.expired,
             l       |-> [r.l EXCEPT !.lastFunc = caller.func]]

\* q.go:66-80: text is <<>> for the empty string
header(l, caller, nowT) ==
    LET r == resetTimer(l, TimerDuration, nowT)
    IN IF NoHeader(r.expired, caller, r.l)
       THEN [text |-> <<>>, expired |-> r.expired, l |-> r.l]
       ELSE [text    |-> <<HdrTok(caller)>>,
             expired |-> r.expired,
             l       |-> [r.l EXCEPT !.lastFunc = caller.func,
                                     !.lastFile = caller.file]]

\* The buffer holds chunks: the tokens one call wrote, in the order written.
Chunk(c, toks) == [call |-> c, toks |-> toks]

\* fmt.Fprint(l.buf, ...) by call c
Fprint(b, c, toks) ==
    IF Len(b) > 0 /\ b[Len(b)].call = c
    THEN [b EXCEPT ![Len(b)].toks = @ \o toks]
    ELSE Append(b, Chunk(c, toks))

\* The file holds, per chunk written, the call it came from and cut:
\* whether a failed write let through only a part of it (at least one
\* byte, not all).
Stored(ch, cut) == [call |-> ch.call, cut |-> cut]

\* What flush can meet: the file opens and takes everything ("ok"), the
\* file does not open ("open"), or the write fails after j whole chunks
\* and, with cut, a part of the next one ("write").
FlushOutcomes(b, mayFail) ==
    {[kind |-> "ok", j |-> 0, cut |-> FALSE]}
    \cup IF mayFail
         THEN {[kind |-> "open", j |-> 0, cut |-> FALSE]}
              \cup {[kind |-> "write", j |-> j, cut |-> cut] :
                       j \in 0..(Len(b) - 1), cut \in BOOLEAN}
         ELSE {}

\* the part of the buffer io.Copy gets into the file
Written(b, o) ==
    IF o.kind = "ok"
    THEN [i \in 1..Len(b) |-> Stored(b[i], FALSE)]
    ELSE [i \in 1..o.j |-> Stored(b[i], FALSE)]
         \o (IF o.cut THEN <<Stored(b[o.j + 1], TRUE)>> ELSE <<>>)

\* q.go:93-104: a failed OpenFile returns before io.Copy and buf.Reset
flush(l, f, o) ==
    IF o.kind = "open"
    THEN [l |-> l, file |-> f, err |-> TRUE]
    ELSE [l    |-> [l EXCEPT !.buf = <<>>],
          file |-> f \o Written(l.buf, o),
          err  |-> o.kind = "write"]

\* ------------------------------------------------------------- variables

VARIABLES
    now,      \* the clock, in microseconds
    ticks,    \* clock advances so far
    errs,     \* failures so far (caller information, names, file)
    mu,       \* std.mu: 0 when unlocked, else the goroutine holding it
    std,      \* the standard logger: buf, start, timer, lastFile, lastFunc
    file,     \* the log file $TMPDIR/q
    pc,       \* where each goroutine is in Q
    loc,      \* what each goroutine's call has done so far
    last,     \* what the last call that returned did
    ncalls,   \* calls of Q begun
    calls,    \* per call, in lock order: the outcome of its flush
    oPc,      \* composer: "start", "loop", "done"
    oArgs,    \* composer: the blobs given to output()
    oTs,      \* composer: the timestamp
    oSt,      \* composer: output()'s loop state
    oI        \* composer: index of the next blob

qvars == <<now, ticks, errs, mu, std, file, pc, loc, last, ncalls, calls>>
ovars == <<oPc, oArgs, oTs, oSt, oI>>
vars  == <<now, ticks, errs, mu, std, file, pc, loc, last, ncalls, calls,
           oPc, oArgs, oTs, oSt, oI>>

Procs == 1..NumProcs

\* the call sites tried: two functions of one file and one of another
Callers ==
    {[func |-> "main.f", file |-> "a.go", line |-> 10],
     [func |-> "main.g", file |-> "a.go", line |-> 20],
     [func |-> "main.f", file |-> "b.go", line |-> 10]}

\* the values given to Q: a value and the widths of its rendering's lines
ValueLists ==
    {<<[val |-> 1, lines |-> <<1>>], [val |-> 2, lines |-> <<3, 2>>]>>}

\* the argument expressions at a call site
SiteNames == <<"a", "b.C">>

\* the clock's advances: under a thousandth of a second, and just under
\* the timer's two seconds (the two together are the two seconds)
Deltas == {400, TimerDuration - 400}

InCall == {"entered", "names", "flush", "unlock"}

NoTimestamp == [ms |-> -1, sat |-> FALSE]

\* no call: a goroutine outside Q, and last before any call has returned
NoCall ==
    [call    |-> 0,          \* the call's place in the order of locking
     caller  |-> NoCaller,   \* getCallerInfo's result
     vals    |-> <<>>,       \* the values given to Q
     at      |-> -1,         \* the clock when header() ran
     expired |-> FALSE,      \* resetTimer's result
     hdr     |-> FALSE,      \* header() returned a header
     named   |-> FALSE,      \* argNames succeeded
     outAt   |-> -1,         \* the clock when output() ran
     ts      |-> NoTimestamp,\* the timestamp output() printed
     start   |-> ZeroTime,   \* l.start when output() ran
     line    |-> <<>>]       \* what output() wrote

QInit ==
    /\ now = 0
    /\ ticks = 0
    /\ errs = 0
    /\ mu = 0
    /\ std = InitLogger
    /\ file = <<>>
    /\ pc = [p \in Procs |-> "idle"]
    /\ loc = [p \in Procs |-> NoCall]
    /\ last = NoCall
    /\ ncalls = 0
    /\ calls = <<>>

OIdle ==
    /\ oPc = "start"
    /\ oArgs = <<>>
    /\ oTs = Timestamp(0, 0)
    /\ oSt = [buf |-> <<>>, padding |-> 0, lineArgs |-> 0, lineWidth |-> 0]
    /\ oI = 1

Init == QInit /\ OIdle

\* Time passes.  The clock is read by header() and output() only, so it
\* is advanced only when a call is about to read it.
Tick ==
    /\ ticks < MaxTicks
    /\ \E p \in Procs : pc[p] \in {"entered", "names"}
    /\ \E d \in Deltas : now' = now + d
    /\ ticks' = ticks + 1
    /\ UNCHANGED <<errs, mu, std, file, pc, loc, last, ncalls, calls>>
    /\ UNCHANGED ovars

\* a goroutine calls Q and reaches std.mu.Lock()
Call(p) ==
    /\ pc[p] = "idle"
    /\ ncalls < MaxCalls
    /\ ncalls' = ncalls + 1
    /\ pc' = [pc EXCEPT ![p] = "waiting"]
    /\ UNCHANGED <<now, ticks, errs, mu, std, file, loc, last, calls>>
    /\ UNCHANGED ovars

CanLockBug(m) == TRUE

\* sync.Mutex: Lock returns only when the mutex is unlocked
CanLock(m) == m = 0

\* q.go:147
Lock(p) ==
    /\ pc[p] = "waiting"
    /\ CanLock(mu)
    /\ mu' = p
    /\ calls' = Append(calls, "none")
    /\ loc' = [loc EXCEPT ![p] = [NoCall EXCEPT !.call = Len(calls) + 1]]
    /\ pc' = [pc EXCEPT ![p] = "entered"]
    /\ UNCHANGED <<now, ticks, errs, std, file, last, ncalls>>
    /\ UNCHANGED ovars

UnnamedBug(names, args) == prependArgName(names, args)

\* q.go:156 and q.go:171: the values are printed as formatArgs left them
Unnamed(names, args) == args

\* the results of getCallerInfo: a call site, or NoCaller for an error
CallerInfos == Callers \cup (IF errs < MaxErrors THEN {NoCaller} ELSE {})

\* q.go:153-166: formatArgs, getCallerInfo and, when that fails, output;
\* else header and the header's lines
Enter(p) ==
    /\ pc[p] = "entered"
    /\ \E vs \in ValueLists, caller \in CallerInfos :
        LET c    == loc[p].call
            args == formatArgs(vs)
        IN IF caller = NoCaller
           THEN LET ts   == Timestamp(std.start, now)
                    text == output(Unnamed(SiteNames, args), ts)
                IN /\ std' = [std EXCEPT !.buf = Fprint(@, c, text)]
                   /\ loc' = [loc EXCEPT ![p] =
                         [@ EXCEPT !.vals = vs, !.outAt = now, !.ts = ts,
                                   !.start = std.start, !.line = text]]
                   /\ errs' = errs + 1
                   /\ pc' = [pc EXCEPT ![p] = "flush"]
           ELSE LET h    == header(std, caller, now)
                    text == IF h.text # <<>>
                            THEN <<NlTok>> \o h.text \o <<NlTok>> ELSE <<>>
                IN /\ std' = IF text # <<>>
                             THEN [h.l EXCEPT !.buf = Fprint(@, c, text)]
                             ELSE h.l
                   /\ loc' = [loc EXCEPT ![p] =
                         [@ EXCEPT !.vals = vs, !.caller = caller,
                                   !.at = now, !.expired = h.expired,
                                   !.hdr = (h.text # <<>>)]]
                   /\ errs' = errs
                   /\ pc' = [pc EXCEPT ![p] = "names"]
    /\ UNCHANGED <<now, ticks, mu, file, last, ncalls, calls>>
    /\ UNCHANGED ovars

\* q.go:169-177: argNames, then output of the values, named when argNames
\* succeeded
Names(p) ==
    /\ pc[p] = "names"
    /\ \E ok \in {TRUE} \cup (IF errs < MaxErrors THEN {FALSE} ELSE {}) :
        LET c    == loc[p].call
            args == formatArgs(loc[p].vals)
            ts   == Timestamp(std.start, now)
            text == IF ok THEN output(prependArgName(SiteNames, args), ts)
                          ELSE output(Unnamed(SiteNames, args), ts)
        IN /\ std' = [std EXCEPT !.buf = Fprint(@, c, text)]
           /\ loc' = [loc EXCEPT ![p] =
                 [@ EXCEPT !.named = ok, !.outAt = now, !.ts = ts,
                           !.start = std.start, !.line = text]]
           /\ errs' = IF ok THEN errs ELSE errs + 1
    /\ pc' = [pc EXCEPT ![p] = "flush"]
    /\ UNCHANGED <<now, ticks, mu, file, last, ncalls, calls>>
    /\ UNCHANGED ovars

\* q.go:151: the deferred std.flush(), whose error is discarded
Flush(p) ==
    /\ pc[p] = "flush"
    /\ \E o \in FlushOutcomes(std.buf, errs < MaxErrors) :
        LET r == flush(std, file, o)
        IN /\ std' = r.l
           /\ file' = r.file
           /\ calls' = [calls EXCEPT ![loc[p].call] = o.kind]
           /\ errs' = IF o.kind = "ok" THEN errs ELSE errs + 1
    /\ pc' = [pc EXCEPT ![p] = "unlock"]
    /\ UNCHANGED <<now, ticks, mu, loc, last, ncalls>>
    /\ UNCHANGED ovars

\* what is kept of a call once it has returned
Returned(r) ==
    [NoCall EXCEPT !.call = r.call, !.caller = r.caller, !.at = r.at,
                   !.outAt = r.outAt, !.ts = r.ts]

UnlockBug(p) ==
    /\ pc[p] = "unlock"
    /\ pc' = [pc EXCEPT ![p] = "idle"]
    /\ last' = Returned(loc[p])
    /\ loc' = [loc EXCEPT ![p] = NoCall]
    /\ UNCHANGED <<now, ticks, errs, mu, std, file, ncalls, calls>>
    /\ UNCHANGED ovars

\* q.go:148: the deferred std.mu.Unlock(), and Q returns
Unlock(p) ==
    /\ pc[p] = "unlock"
    /\ mu' = 0
    /\ pc' = [pc EXCEPT ![p] = "idle"]
    /\ last' = Returned(loc[p])
    /\ loc' = [loc EXCEPT ![p] = NoCall]
    /\ UNCHANGED <<now, ticks, errs, std, file, ncalls, calls>>
    /\ UNCHANGED ovars

Step(p) == Call(p) \/ Lock(p) \/ Enter(p) \/ Names(p) \/ Flush(p) \/ Unlock(p)

Next == Tick \/ \E p \in Procs : Step(p)

Spec == Init /\ [][Next]_vars

\* The scheduler runs every goroutine that can run, and sync.Mutex gives
\* the lock to a goroutine that waits for it once the lock stays free.
Fairness ==
    \A p \in Procs :
        WF_vars(Lock(p) \/ Enter(p) \/ Names(p) \/ Flush(p) \/ Unlock(p))

FairSpec == Spec /\ Fairness

\* ------------------------------------------------------------- composer

\* the widths of the visual lines of the blobs tried
BlobShapes == {<<5>>, <<32>>, <<40>>, <<74>>, <<81>>, <<30, 60>>}

\* the elapsed times tried: 0.000s, 12.345s and the saturated Duration
ComposerStamps ==
    {Timestamp(0, 0), Timestamp(0, 12345000), Timestamp(ZeroTime, 0)}

ArgSeqs(n) == UNION {[1..m -> BlobShapes] : m \in 0..n}

OInit ==
    /\ oPc = "start"
    /\ \E shapes \in ArgSeqs(MaxArgs) :
          oArgs = [i \in 1..Len(shapes) |-> Blob("", i, shapes[i])]
    /\ oTs \in ComposerStamps
    /\ oSt = [buf |-> <<>>, padding |-> 0, lineArgs |-> 0, lineWidth |-> 0]
    /\ oI = 1

\* q.go:109-120
OutputBegin ==
    /\ oPc = "start"
    /\ oSt' = OutputStart(oTs)
    /\ oPc' = "loop"
    /\ UNCHANGED <<oArgs, oTs, oI>>
    /\ UNCHANGED qvars

\* q.go:121-140
OutputIterate ==
    /\ oPc = "loop"
    /\ oI <= Len(oArgs)
    /\ oSt' = OutputArg(oSt, oArgs[oI], oI, TimestampLen(oTs) + 1)
    /\ oI' = oI + 1
    /\ UNCHANGED <<oPc, oArgs, oTs>>
    /\ UNCHANGED qvars

\* q.go:142
OutputEnd ==
    /\ oPc = "loop"
    /\ oI > Len(oArgs)
    /\ oSt' = [oSt EXCEPT !.buf = @ \o <<NlTok>>]
    /\ oPc' = "done"
    /\ UNCHANGED <<oArgs, oTs, oI>>
    /\ UNCHANGED qvars

ONext == OutputBegin \/ OutputIterate \/ OutputEnd

\* the logger as init leaves it, and output() about to run on its arguments
InitOutput == QInit /\ OInit

SpecOutput == InitOutput /\ [][ONext]_vars

\* ------------------------------------------------------- reading a state

\* p's call has run output() and has not yet returned
Printed(p) == pc[p] \in {"flush", "unlock"}

\* the tokens call c has in buffer b
InBuffer(b, c) ==
    IF \E i \in 1..Len(b) : b[i].call = c
    THEN b[CHOOSE i \in 1..Len(b) : b[i].call = c].toks
    ELSE <<>>

\* call c has a header in buffer b
HeaderIn(b, c) ==
    \E i \in 1..Len(b) :
        b[i].call = c /\ \E n \in 1..Len(b[i].toks) : b[i].toks[n].k = "hdr"

RECURSIVE Pick(_, _)
\* the tokens of kind k of a text, in order
Pick(toks, k) ==
    IF Len(toks) = 0 THEN <<>>
    ELSE (IF Head(toks).k = k THEN <<Head(toks)>> ELSE <<>>) \o Pick(Tail(toks), k)

\* the <<name, value>> of each blob of a text, in order
NamedValues(toks) ==
    LET first == SelectSeq(Pick(toks, "txt"), LAMBDA t : t.a[2] = 1)
    IN [i \in 1..Len(first) |-> first[i].b]

\* 0.000s
ZeroStamp == [ms |-> 0, sat |-> FALSE]

\* the call p is making and the call before it come from the same function
\* and file, and ran header() less than two seconds apart
SameCallerSoon(p) ==
    /\ Printed(p)
    /\ loc[p].caller # NoCaller
    /\ last.call >= 1
    /\ last.call = loc[p].call - 1
    /\ last.caller # NoCaller
    /\ last.caller.func = loc[p].caller.func
    /\ last.caller.file = loc[p].caller.file
    /\ loc[p].at - last.at < TimerDuration

\* ---------------------------------------------------------------- claims

\* C1 (as amended): of two consecutive Q calls from the same function and
\* file whose header() calls are less than 2 seconds apart, the second
\* emits no header and prints a timestamp that is not less than the first's.
C1_NoHeaderNotEarlier ==
    \A p \in Procs :
        SameCallerSoon(p) =>
            /\ ~loc[p].hdr
            /\ ~HeaderIn(std.buf, loc[p].call)
            /\ ~loc[p].ts.sat
            /\ loc[p].ts.ms >= last.ts.ms

\* C1 (as claimed): ... the second, printing later than the first, prints
\* a timestamp strictly greater than the first's.
C1_StrictlyGreater ==
    \A p \in Procs :
        (SameCallerSoon(p) /\ loc[p].outAt > last.outAt) =>
            (~loc[p].hdr /\ loc[p].ts.ms > last.ts.ms)

\* C1's case: a second call from the same place within 2 seconds, printing
\* a later timestamp under the first call's header
C1_Witness ==
    \E p \in Procs :
        SameCallerSoon(p) /\ ~loc[p].hdr /\ loc[p].ts.ms > last.ts.ms

\* C2: a Q call with caller information emits a header exactly when the
\* timer is not running at that call (it was never started, or its deadline
\* has passed) or the call's function or file differs from lastFunc or
\* lastFile.
C2_HeaderIff ==
    [][\A p \in Procs :
          (pc[p] = "entered" /\ pc'[p] = "names") =>
              /\ loc'[p].hdr = HeaderIn(std'.buf, loc'[p].call)
              /\ loc'[p].hdr <=>
                    \/ ~std.timer.active
                    \/ now >= std.timer.when
                    \/ loc'[p].caller.func # std.lastFunc
                    \/ loc'[p].caller.file # std.lastFile]_vars

\* C2's case: a header emitted for a change of file alone, the timer still
\* running and the function the same
C2_Witness ==
    \E p \in Procs :
        /\ pc[p] = "names"
        /\ loc[p].hdr
        /\ ~loc[p].expired
        /\ last.caller # NoCaller
        /\ last.caller.func = loc[p].caller.func
        /\ last.caller.file # loc[p].caller.file

\* C3 (as claimed): whenever a Q call emits a header, start is the time of
\* that call.
C3_HeaderResetsStart ==
    \A p \in Procs :
        (pc[p] \in {"names", "flush", "unlock"} /\ loc[p].hdr) =>
            std.start = loc[p].at

\* C4 (as amended): a physical line of the block output() composes is wider
\* than 80 columns only if it holds a single blob whose width and the
\* timestamp's width (with its padding space) together exceed 80.
C4_WideLineSingleBlob ==
    oPc = "done" =>
        LET lines == PhysLines(oSt.buf)
        IN \A n \in 1..Len(lines) :
              LineWidth(lines[n]) > maxLineWidth =>
                  /\ Cardinality(BlobsOn(lines[n])) = 1
                  /\ \A i \in BlobsOn(lines[n]) :
                        TimestampLen(oTs) + 1 + argWidth(oArgs[i]) > maxLineWidth

\* C4 (as claimed): a physical line is wider than 80 columns only if it
\* holds a single blob whose own width exceeds 80.
C4_WideLineWideBlob ==
    oPc = "done" =>
        LET lines == PhysLines(oSt.buf)
        IN \A n \in 1..Len(lines) :
              LineWidth(lines[n]) > maxLineWidth =>
                  /\ Cardinality(BlobsOn(lines[n])) = 1
                  /\ \A i \in BlobsOn(lines[n]) :
                        argWidth(oArgs[i]) > maxLineWidth

\* C4's case: three blobs composed, the second moved to a line of its own
\* that is wider than 80 columns
C4_Witness ==
    /\ oPc = "done"
    /\ Len(oArgs) = 3
    /\ LET lines == PhysLines(oSt.buf)
       IN /\ Len(lines) >= 3
          /\ LineWidth(lines[2]) > maxLineWidth
          /\ BlobsOn(lines[2]) = {2}

\* at most one call is between Lock and Unlock, and it holds the lock
C5_Exclusion ==
    /\ \A p, q \in Procs :
          (pc[p] \in InCall /\ pc[q] \in InCall) => p = q
    /\ \A p \in Procs : pc[p] \in InCall => mu = p

\* the file's chunks are in the order in which the calls took the lock, one
\* chunk per call at most; a chunk is cut only by that call's failed write;
\* the output of a call whose flush succeeded is in the file whole
C5_FileBlocks ==
    /\ \A i, j \in 1..Len(file) : i < j => file[i].call < file[j].call
    /\ \A i \in 1..Len(file) :
          /\ file[i].call \in 1..Len(calls)
          /\ file[i].cut => \E c \in file[i].call..Len(calls) : calls[c] = "write"
    /\ \A c \in 1..Len(calls) :
          calls[c] = "ok" => \E i \in 1..Len(file) : file[i] = [call |-> c, cut |-> FALSE]

\* a step that changes the logger or the file is a step of the goroutine
\* that holds the lock
C5_UnderLock ==
    (std' # std \/ file' # file) =>
        /\ mu \in Procs
        /\ pc[mu] \in InCall
        /\ pc'[mu] # pc[mu]
        /\ \A q \in Procs \ {mu} : pc'[q] = pc[q]

\* C5 (as amended): at most one call at a time is between lock acquisition
\* and release, the logger and the file change only in steps of the lock's
\* holder, and the file holds the calls' output as contiguous blocks in the
\* order of lock acquisition, whole for every call whose flush succeeded.
C5_Serialized == [](C5_Exclusion /\ C5_FileBlocks) /\ [][C5_UnderLock]_vars

\* C5 (as claimed): ... the file holds each call's complete output, once the
\* call has flushed.
C5_EveryCallWhole ==
    \A c \in 1..Len(calls) :
        calls[c] # "none" => \E i \in 1..Len(file) : file[i] = [call |-> c, cut |-> FALSE]

\* C5's case: the second call's block follows the first's in the file while
\* the second caller, which had to wait for the lock, still holds it
C5_Witness ==
    \E p \in Procs :
        /\ pc[p] = "unlock"
        /\ loc[p].call = 2
        /\ file = <<[call |-> 1, cut |-> FALSE], [call |-> 2, cut |-> FALSE]>>

\* C6 (as claimed): once a call's flush has run the buffer is empty.
C6_BufferEmptyAfterFlush ==
    (\A p \in Procs : pc[p] \notin {"entered", "names", "flush"}) => std.buf = <<>>

\* C7 (as claimed): the output of a call whose flush failed, to open the
\* file or to write it, is not in the file, then or later.
C7_FailedOutputDropped ==
    \A c \in 1..Len(calls) :
        calls[c] \in {"open", "write"} =>
            ~\E i \in 1..Len(file) : file[i] = [call |-> c, cut |-> FALSE]

\* what call p printed is one timestamped line of unnamed values
UnnamedLine(p) ==
    LET line == loc[p].line
        mine == InBuffer(std.buf, loc[p].call)
    IN /\ Len(line) >= 3
       /\ line[1].k = "ts"
       /\ Len(Pick(line, "ts")) = 1
       /\ line[Len(line)].k = "nl"
       /\ NamedValues(line) =
             [i \in 1..Len(loc[p].vals) |-> <<"", loc[p].vals[i].val>>]
       /\ Len(mine) >= Len(line)
       /\ SubSeq(mine, Len(mine) - Len(line) + 1, Len(mine)) = line
       /\ Len(Pick(mine, "ts")) = 1

\* C8: a call whose caller information or argument names cannot be
\* recovered writes one timestamped line holding every value in order, none
\* with a name.
C8_UnnamedValues ==
    \A p \in Procs :
        (pc[p] = "flush" /\ (loc[p].caller = NoCaller \/ ~loc[p].named)) =>
            UnnamedLine(p)

\* C8's case: the header was written, argNames failed, and the line is out
C8_Witness ==
    \E p \in Procs :
        /\ pc[p] = "flush"
        /\ loc[p].caller # NoCaller
        /\ loc[p].hdr
        /\ ~loc[p].named
        /\ Len(loc[p].vals) = 2

\* C9: under fair scheduling every goroutine that has called Q returns from
\* it, on every path, and then does not hold the lock.
C9_Returns ==
    \A p \in Procs : (pc[p] # "idle") ~> (pc[p] = "idle" /\ mu # p)

\* C9's case: a call whose flush could not open the file is about to
\* unlock while another goroutine waits for the lock
C9_Witness ==
    \E p, q \in Procs :
        /\ pc[p] = "unlock"
        /\ calls[loc[p].call] = "open"
        /\ pc[q] = "waiting"

\* C10 (as amended): the first Q call, when its caller information is
\* available, emits a header and then a line, and start is the time of that
\* call's header() when the timestamp is computed: the timestamp is 0.000s
\* when less than half a thousandth of a second passes inside the call.
C10_FirstCall ==
    \A p \in Procs :
        (Printed(p) /\ loc[p].call = 1 /\ loc[p].caller # NoCaller) =>
            /\ loc[p].hdr
            /\ loc[p].expired
            /\ loc[p].start = loc[p].at
            /\ (loc[p].outAt - loc[p].at < MicrosPerMilli \div 2
                    => loc[p].ts = ZeroStamp)
            /\ (pc[p] = "flush" =>
                    InBuffer(std.buf, 1) =
                        <<NlTok, HdrTok(loc[p].caller), NlTok>> \o loc[p].line)

\* C10 (as claimed): the first Q call emits a header and a line whose
\* timestamp is 0.000s.
C10_FirstCallZero ==
    \A p \in Procs :
        (Printed(p) /\ loc[p].call = 1) =>
            (loc[p].hdr /\ loc[p].ts = ZeroStamp)

\* C10's case: the first call has printed its header and a line at 0.000s
C10_Witness ==
    \E p \in Procs :
        /\ pc[p] = "flush"
        /\ loc[p].call = 1
        /\ loc[p].hdr
        /\ loc[p].ts = ZeroStamp

\* the step in which p's call runs header(): q.go:163
HeaderStep(p) == pc[p] = "entered" /\ pc'[p] = "names"

\* C11: start changes in a step exactly when the step is a call's header()
\* and the timer was not running then (never started, or past its
\* deadline), and then start becomes the time of that step; a call whose
\* timer was still running leaves start alone, with a header or without.
C11_StartChangesIffLapsed ==
    [][/\ std'.start # std.start => \E p \in Procs : HeaderStep(p)
       /\ \A p \in Procs :
             HeaderStep(p) =>
                /\ std'.start # std.start <=>
                      (~std.timer.active \/ now >= std.timer.when)
                /\ std'.start # std.start => std'.start = now
                /\ loc'[p].expired <=> std'.start # std.start]_vars

\* C11's case: a call inside the 2-second window that emits a header (its
\* function or file differs) and leaves the earlier start in place
C11_Witness ==
    \E p \in Procs :
        /\ pc[p] = "names"
        /\ loc[p].hdr
        /\ ~loc[p].expired
        /\ last.call >= 1
        /\ std.start # ZeroTime
        /\ std.start < loc[p].at

\* C12: once a call with caller information has run header(), and after it
\* has returned, lastFunc and lastFile are that call's function and file,
\* whether it emitted a header or not.
C12_LastCaller ==
    /\ \A p \in Procs :
          (pc[p] \in {"names", "flush", "unlock"} /\ loc[p].caller # NoCaller) =>
              /\ std.lastFunc = loc[p].caller.func
              /\ std.lastFile = loc[p].caller.file
    /\ (last.caller # NoCaller
            /\ \A p \in Procs : pc[p] \notin {"names", "flush", "unlock"}) =>
              /\ std.lastFunc = last.caller.func
              /\ std.lastFile = last.caller.file

\* C12's case: a second call from another file has run header(), which
\* returned a header, and lastFile is the second call's file
C12_Witness ==
    \E p \in Procs :
        /\ pc[p] = "flush"
        /\ loc[p].hdr
        /\ last.caller # NoCaller
        /\ last.caller.file # loc[p].caller.file
        /\ std.lastFile = loc[p].caller.file

\* the moment of a call at which it resets the timer, or would: header()
\* when there is caller information, else output()
CallTime(r) == IF r.caller = NoCaller THEN r.outAt ELSE r.at

\* C13 (as claimed): every Q call leaves the timer running with its deadline
\* 2 seconds after the call, and a call finds the timer expired only when at
\* least 2 seconds have passed since the call before it, of any kind.
C13_DeadlineEveryCall ==
    \A p \in Procs :
        /\ Printed(p) =>
              /\ std.timer.active
              /\ std.timer.when = CallTime(loc[p]) + TimerDuration
        /\ (pc[p] \in {"names", "flush", "unlock"}
                /\ loc[p].expired
                /\ last.call >= 1) =>
              loc[p].at - CallTime(last) >= TimerDuration

\* the part of C13 the code keeps: a call with caller information leaves
\* the deadline 2 seconds after its header(), and finds the timer expired
\* only when the call before it had no caller information or ran header()
\* at least 2 seconds earlier
C13_DeadlineWithCaller ==
    \A p \in Procs :
        /\ (Printed(p) /\ loc[p].caller # NoCaller) =>
              /\ std.timer.active
              /\ std.timer.when = loc[p].at + TimerDuration
        /\ (pc[p] \in {"names", "flush", "unlock"}
                /\ loc[p].expired
                /\ last.call >= 1
                /\ last.caller # NoCaller) =>
              loc[p].at - last.at >= TimerDuration

\* C18 (as claimed): when output() computes the timestamp, start has been
\* set by resetTimer: no call prints a timestamp measured from the zero
\* time.
C18_StartSetBeforeOutput ==
    \A p \in Procs :
        Printed(p) => (loc[p].start # ZeroTime /\ ~loc[p].ts.sat)

\* the part of C18 the code keeps: a call with caller information, and
\* every call after one, prints a timestamp measured from a start that
\* resetTimer has set
C18_StartSetWithCaller ==
    \A p \in Procs :
        (Printed(p) /\ (loc[p].caller # NoCaller \/ std.timer.active)) =>
            (loc[p].start # ZeroTime /\ ~loc[p].ts.sat)

\* the step in which output()'s loop handles blob oI
IterStep == oPc = "loop" /\ oI' = oI + 1

\* C14: in an iteration of output()'s loop a line break comes before the
\* blob exactly when the blob is not the first on its line and the running
\* width, one space and the blob's width together exceed 80; the first blob
\* of a line is written at once, with no separator; after a break the
\* running width is the indent's width plus the blob's, and the blob
\* follows the indent with no space; otherwise one space separates it from
\* the blob before.
C14_BreakIff ==
    [][IterStep =>
        LET w       == argWidth(oArgs[oI])
            indentW == TimestampLen(oTs) + 1
            first   == oSt.lineArgs = 0
            brk     == ~first /\ oSt.lineWidth + 1 + w > maxLineWidth
            added   == SubSeq(oSt'.buf, Len(oSt.buf) + 1, Len(oSt'.buf))
        IN /\ Len(added) >= 1
           /\ first <=> oSt.buf = <<TsTok(oTs), SpTok>>
           /\ brk <=> added[1].k = "nl"
           /\ brk => /\ Len(added) >= 3
                     /\ added[2] = IndTok(indentW)
                     /\ added[3].k = "txt" /\ added[3].a = <<oI, 1>>
                     /\ oSt'.lineWidth = indentW + w
                     /\ oSt'.lineArgs = 1
           /\ first => /\ added[1].k = "txt" /\ added[1].a = <<oI, 1>>
                       /\ oSt'.lineWidth = indentW + w
           /\ (~brk /\ ~first) =>
                     /\ Len(added) >= 2
                     /\ added[1] = SpTok
                     /\ added[2].k = "txt" /\ added[2].a = <<oI, 1>>
                     /\ oSt'.lineWidth = oSt.lineWidth + 1 + w
                     /\ oSt'.lineArgs = oSt.lineArgs + 1]_vars

\* C14's case: the second blob has just been moved to a new line because
\* the first line would have been 81 columns wide with it
C14_Witness ==
    /\ oPc = "loop"
    /\ oI = 3
    /\ oSt.lineArgs = 1
    /\ TimestampLen(oTs) + 1 + argWidth(oArgs[1]) + 1 + argWidth(oArgs[2])
          = maxLineWidth + 1
    /\ oSt.lineWidth = TimestampLen(oTs) + 1 + argWidth(oArgs[2])
    /\ \E n \in 1..(Len(oSt.buf) - 2) :
          /\ oSt.buf[n].k = "nl"
          /\ oSt.buf[n + 1].k = "ind"
          /\ oSt.buf[n + 2].k = "txt" /\ oSt.buf[n + 2].a = <<2, 1>>

\* C15: in what output() has written, every newline but the block's last
\* is followed at once by an indent of len(timestamp) + 1 spaces, and the
\* finished block ends with a newline.
C15_NewlineIndent ==
    /\ \A n \in 1..Len(oSt.buf) :
          (oSt.buf[n].k = "nl" /\ ~(oPc = "done" /\ n = Len(oSt.buf))) =>
              /\ n < Len(oSt.buf)
              /\ oSt.buf[n + 1] = IndTok(TimestampLen(oTs) + 1)
    /\ oPc = "done" => oSt.buf[Len(oSt.buf)].k = "nl"

\* C15's case: a finished block with a newline put in at a wrap and a
\* newline from inside a blob
C15_Witness ==
    /\ oPc = "done"
    /\ \E n, m \in 1..(Len(oSt.buf) - 2) :
          /\ oSt.buf[n].k = "nl" /\ oSt.buf[n + 2].k = "txt"
          /\ oSt.buf[n + 2].a[2] = 1
          /\ oSt.buf[m].k = "nl" /\ oSt.buf[m + 2].k = "txt"
          /\ oSt.buf[m + 2].a[2] > 1

\* the text of the block call p has put in the buffer has the shape
\* [ "\n" header "\n" ] timestamp " " blobs "\n"
BlockShape(p) ==
    LET mine == InBuffer(std.buf, loc[p].call)
        h    == IF loc[p].hdr THEN 3 ELSE 0
        n    == Len(mine)
    IN /\ n >= h + 3
       /\ loc[p].hdr =>
             /\ mine[1] = NlTok
             /\ mine[2] = HdrTok(loc[p].caller)
             /\ mine[3] = NlTok
       /\ Len(Pick(mine, "hdr")) = (IF loc[p].hdr THEN 1 ELSE 0)
       /\ mine[h + 1] = TsTok(loc[p].ts)
       /\ mine[h + 2] = SpTok
       /\ Len(Pick(mine, "ts")) = 1
       /\ \A i \in (h + 3)..(n - 1) : mine[i].k \in {"txt", "sp", "nl", "ind"}
       /\ Len(loc[p].vals) > 0 => mine[h + 3].k = "txt"
       /\ mine[n] = NlTok
       /\ mine[n - 1].k # "nl"

\* C16: what one Q call appends to the buffer is, when it emits a header, a
\* newline, the header and a newline, and then in every case the timestamp,
\* one space, the blobs and one newline that ends the block.
C16_BlockShape ==
    \A p \in Procs : pc[p] = "flush" => BlockShape(p)

\* C16's case: a call has written a header and under it a line of two
\* named values
C16_Witness ==
    \E p \in Procs :
        /\ pc[p] = "flush"
        /\ loc[p].hdr
        /\ loc[p].named
        /\ Len(NamedValues(InBuffer(std.buf, loc[p].call))) = 2

RECURSIVE BlobText(_, _, _)
\* blob i as it was given: its pieces from j on, with its own newlines
BlobText(arg, i, j) ==
    IF j > Len(arg.lines) THEN <<>>
    ELSE (IF j = 1 THEN <<>> ELSE <<NlTok>>)
         \o <<TxtTok(i, j, arg, arg.lines[j])>>
         \o BlobText(arg, i, j + 1)

RECURSIVE AllText(_, _)
\* the blobs from i on, one after the other
AllText(args, i) ==
    IF i > Len(args) THEN <<>>
    ELSE BlobText(args[i], i, 1) \o AllText(args, i + 1)

RECURSIVE Strip(_, _)
\* a block from token n on without its timestamp, separator spaces and
\* indents, and without the newlines that are not inside a blob
Strip(toks, n) ==
    IF n > Len(toks) THEN <<>>
    ELSE LET inside == /\ toks[n].k = "nl"
                       /\ n + 2 <= Len(toks)
                       /\ toks[n + 1].k = "ind"
                       /\ toks[n + 2].k = "txt"
                       /\ toks[n + 2].a[2] > 1
         IN (IF toks[n].k = "txt" \/ inside THEN <<toks[n]>> ELSE <<>>)
            \o Strip(toks, n + 1)

\* C17: the finished block, without the timestamp, the separators, the wrap
\* newlines and the indents, is the sequence of blobs given, each once and
\* in order.
C17_BlobsOnceInOrder ==
    oPc = "done" => Strip(oSt.buf, 1) = AllText(oArgs, 1)

\* C17's case: three blobs, one of them of two lines, composed with a wrap
C17_Witness ==
    /\ oPc = "done"
    /\ Len(oArgs) = 3
    /\ \E i \in 1..3 : Len(oArgs[i].lines) = 2
    /\ \E n \in 1..(Len(oSt.buf) - 2) :
          /\ oSt.buf[n].k = "nl" /\ oSt.buf[n + 2].k = "txt"
          /\ oSt.buf[n + 2].a[2] = 1

====
